---- MODULE Spec2Model ----
(***************************************************************************)
(* Model of scenario/mocking.py: the tool simulator wrap_tool, which       *)
(* answers the backend operations of a charm from an in-memory Scene, the  *)
(* exec handle _MockExecProcess it hands out, and the installation of the  *)
(* wrappers that route a charm's calls to it (wrap, patch_class,           *)
(* patch_module).                                                          *)
(*                                                                         *)
(* Python values are modelled as follows.                                  *)
(*   str    a sequence of lexemes (<<"/", "a", "/", "b">> is "/a/b"), so   *)
(*          that str.split is computed and not assumed; a str used as a    *)
(*          dict key is the TLA+ string of its lexemes (Str).              *)
(*   dict   a function whose domain is the set of keys.                    *)
(*   list   a sequence.                                                    *)
(*   the filesystem tree (nested dicts with file locations as leaves) is   *)
(*          a function from the paths of its nodes to the node kinds; the  *)
(*          children of a directory node are the paths one segment longer. *)
(***************************************************************************)
EXTENDS Integers, Sequences, FiniteSets, TLC

VARIABLES
    state,      \* scene.state, mutated in place by the setters
    before,     \* scene.state as it was when the last intercepted call was made
    call,       \* the intercepted call: namespace, tool_name, call_args, call_kwargs
    outcome,    \* what the call did: a returned value or a raised exception
    logged,     \* the log lines the wrapper emitted for the call
    classes,    \* the patched module: of each class, what each method is bound to
    scene_b,    \* the State of a second Scene the module may be patched for
    process,    \* the _MockExecProcess handle returned by the last exec, if any
    waited,     \* the wait()/wait_output() calls made on that handle, with results
    ncalls,     \* number of calls made so far
    budget      \* number of calls the run may still make

vars == <<state, before, call, outcome, logged, classes, scene_b, process, waited,
          ncalls, budget>>

\* Number of intercepted calls in one run, and of waits on one exec handle.
MaxCalls == 2
MaxWaits == 2
\* Number of intercepted calls in a run that mixes the two namespaces.
MaxMixed == 1
\* Number of times one method is patched.
MaxInstalls == 2

None == "None"

-----------------------------------------------------------------------------
(* dict *)

EmptyDict == [k \in {} |-> None]

DictGet(d, k) == IF k \in DOMAIN d THEN d[k] ELSE None

\* the truth of call_kwargs.get(k), for a flag that is absent or a bool
KwFlag(kwargs, k) == k \in DOMAIN kwargs /\ kwargs[k]

\* a write that is lost
DictSetLost(d, k, v) == d

\* d[k] = v
DictSet(d, k, v) == [x \in (DOMAIN d) \cup {k} |-> IF x = k THEN v ELSE d[x]]

-----------------------------------------------------------------------------
(* str *)

RECURSIVE Str(_)
Str(text) == IF text = <<>> THEN "" ELSE Head(text) \o Str(Tail(text))

RECURSIVE SplitFrom(_, _, _, _)
SplitFrom(text, sep, i, cur) ==
    IF i > Len(text) THEN <<cur>>
    ELSE IF text[i] = sep THEN <<cur>> \o SplitFrom(text, sep, i + 1, <<>>)
    ELSE SplitFrom(text, sep, i + 1, Append(cur, text[i]))

\* text.split(sep): the segments between the separators, empty ones included.
Split(text, sep) == SplitFrom(text, sep, 1, <<>>)

\* [Str(t) for t in segments]
Strs(segments) == [i \in 1..Len(segments) |-> Str(segments[i])]

\* seq[1:]
Rest(seq) == IF seq = <<>> THEN <<>> ELSE Tail(seq)

\* seq[:-1]
ButLast(seq) == IF seq = <<>> THEN <<>> ELSE SubSeq(seq, 1, Len(seq) - 1)

DigitValue == [d \in {"0", "1", "2", "3"} |-> CASE d = "0" -> 0 [] d = "1" -> 1
                                                [] d = "2" -> 2 [] d = "3" -> 3]

\* str(n), as an f-string formats a unit id
Numeral(n) == CHOOSE d \in DOMAIN DigitValue : DigitValue[d] = n

\* int(s) succeeds on a numeral only
IsNumeral(s) == s \in DOMAIN DigitValue

\* next(filter(test, seq)), given the sequence of the test's answers: the
\* index of the first element that passes, 0 when StopIteration is raised
FirstIndex(passes) ==
    IF \E i \in 1..Len(passes) : passes[i]
    THEN CHOOSE i \in 1..Len(passes) : passes[i] /\ \A j \in 1..(i - 1) : ~passes[j]
    ELSE 0

-----------------------------------------------------------------------------
(* The Scene: scene.meta, charm_spec and the State the run starts from *)

this_unit_name == "local/0"
this_app_name == "local"

\* charm_spec.config: opt_a declares a default, opt_b declares none
CharmSpec ==
    [config |-> [opt_a |-> [type |-> "string", default |-> "a0"],
                 opt_b |-> [type |-> "string"]]]

\* State.config as the test author may give it: none, or some options only
Configs == {EmptyDict, [opt_b |-> "b1"]}

CR == "CR"
LF == "LF"

Dir == [kind |-> "dir"]
\* a leaf of the tree: a location on the local disk and what is found there
Leaf(on_disk, data) == [kind |-> "leaf", on_disk |-> on_disk, data |-> data]

Relations ==
    << [meta |-> [relation_id |-> 1, remote_app_name |-> "remote",
                  remote_unit_ids |-> <<0, 1>>],
        local_app_data |-> [k1 |-> "la"],
        local_unit_data |-> EmptyDict,
        remote_app_data |-> [k1 |-> "ra"],
        remote_units_data |-> [u \in {0, 1} |-> [k1 |-> IF u = 0 THEN "r0" ELSE "r1"]]],
       [meta |-> [relation_id |-> 2, remote_app_name |-> "db",
                  remote_unit_ids |-> <<0>>],
        local_app_data |-> EmptyDict,
        local_unit_data |-> [k2 |-> "lu"],
        remote_app_data |-> EmptyDict,
        remote_units_data |-> [u \in {0} |-> EmptyDict]] >>

Containers ==
    << [name |-> "c1",
        can_connect |-> TRUE,
        filesystem |-> (<< >> :> Dir) @@ (<<"etc">> :> Dir)
                       @@ (<<"etc", "conf">> :> Leaf("file", <<"old">>))
                       @@ (<<"empty">> :> Dir)
                       @@ (<<"f">> :> Leaf("file", <<"f0">>))
                       @@ (<<"gone">> :> Leaf("missing", << >>)),
        exec_mock |-> (<<"ls">> :> [return_code |-> 0, stdout |-> "out", stderr |-> ""])
                      @@ (<<"false">> :> [return_code |-> 1, stdout |-> "", stderr |-> "err"]),
        layers |-> << [services |-> [a |-> "a@1", b |-> "b@1"]],
                      [services |-> [b |-> "b@2", c |-> "c@2"]] >>],
       [name |-> "c2",
        can_connect |-> FALSE,
        filesystem |-> (<< >> :> Dir),
        exec_mock |-> (<<"ls">> :> [return_code |-> 2, stdout |-> "", stderr |-> "no"]),
        layers |-> << >>] >>

Networks ==
    << [name |-> "eth0",
        network |-> [bind_addresses |-> <<"10.0.0.1">>,
                     egress_subnets |-> <<"10.0.0.0/24">>,
                     ingress_addresses |-> <<"10.0.0.1">>]] >>

InitialState(leader, config) ==
    [leader |-> leader,
     config |-> config,
     status |-> [app |-> <<"unknown", "">>, unit |-> <<"unknown", "">>,
                 app_version |-> ""],
     juju_log |-> << >>,
     relations |-> Relations,
     containers |-> Containers,
     networks |-> Networks]

-----------------------------------------------------------------------------
(* What the body of wrap_tool's try block does: it returns a value, raises,  *)
(* or falls off the end of the dispatch; with the flags it has set by then.  *)

Return(v) == [kind |-> "return", value |-> v]
Raise(type, arg) == [kind |-> "raise", type |-> type, arg |-> arg]
FallThrough == [kind |-> "fall"]

\* a body that stores the defaults of the charm's options into State.config
BodyStoringDefaults(res, st, setter, wrap_errors) ==
    [res |-> res,
     st |-> [st EXCEPT !.config = [opt_a |-> "a0", opt_b |-> None]],
     setter |-> setter, wrap_errors |-> wrap_errors]

Body(res, st, setter, wrap_errors) ==
    [res |-> res, st |-> st, setter |-> setter, wrap_errors |-> wrap_errors]

-----------------------------------------------------------------------------
(* namespace "_ModelBackend": the getters.  args is call_args[1:].           *)

\* next(filter(lambda r: r.meta.relation_id == rel_id, relations))
RelationIndex(relations, rel_id) ==
    FirstIndex([i \in 1..Len(relations) |-> relations[i].meta.relation_id = rel_id])

\* a read that answers every request with the remote application's data
relation_get_remote_app(st, args) ==
    LET i == RelationIndex(st.relations, args[1])
    IN  IF i = 0 THEN Raise("StopIteration", None)
        ELSE Return(st.relations[i].remote_app_data)

relation_get(st, args) ==
    LET rel_id == args[1]
        obj_name == args[2]
        app == args[3]
        i == RelationIndex(st.relations, rel_id)
        relation == st.relations[i]
        segments == Strs(Split(obj_name, "/"))
        unit_id == segments[Len(segments)]
    IN  IF i = 0 THEN Raise("StopIteration", None)
        ELSE IF app /\ Str(obj_name) = this_app_name
             THEN Return(relation.local_app_data)
        ELSE IF app THEN Return(relation.remote_app_data)
        ELSE IF Str(obj_name) = this_unit_name
             THEN Return(relation.local_unit_data)
        ELSE IF ~IsNumeral(unit_id) THEN Raise("ValueError", unit_id)
        ELSE IF DigitValue[unit_id] \notin DOMAIN relation.remote_units_data
             THEN Raise("KeyError", unit_id)
        ELSE Return(relation.remote_units_data[DigitValue[unit_id]])

is_leader(st) == Return(st.leader)

status_get(st, kwargs) ==
    LET tuple == IF KwFlag(kwargs, "app") THEN st.status.app
                 ELSE st.status.unit
    IN  IF Len(tuple) # 2 THEN Raise("ValueError", None)
        ELSE Return([status |-> tuple[1], message |-> tuple[2]])

relation_ids(st) ==
    Return([i \in 1..Len(st.relations) |-> st.relations[i].meta.relation_id])

relation_list(st, args) ==
    LET rel_id == args[1]
        i == RelationIndex(st.relations, rel_id)
        relation == st.relations[i]
        ids == relation.meta.remote_unit_ids
    IN  IF i = 0 THEN Raise("StopIteration", None)
        ELSE Return([j \in 1..Len(ids) |->
                        <<relation.meta.remote_app_name, "/", Numeral(ids[j])>>])

\* defaults that leave out the options declaring none
ConfigDefaultsDeclaredOnly(charm_spec) ==
    [key \in {k \in DOMAIN charm_spec.config : "default" \in DOMAIN charm_spec.config[k]}
        |-> charm_spec.config[key].default]

\* {key: value.get("default") for key, value in charm_spec.config.items()}
ConfigDefaults(charm_spec) ==
    [key \in DOMAIN charm_spec.config |-> DictGet(charm_spec.config[key], "default")]

config_get(st, charm_spec, args) ==
    LET state_config == IF st.config = EmptyDict THEN ConfigDefaults(charm_spec)
                        ELSE st.config
    IN  IF args # << >>
        THEN IF args[1] \in DOMAIN state_config THEN Return(state_config[args[1]])
             ELSE Raise("KeyError", args[1])
        ELSE Return(state_config)

\* network.hook_tool_output_fmt()
hook_tool_output_fmt(network) ==
    [bind_addresses |-> network.bind_addresses,
     egress_subnets |-> network.egress_subnets,
     ingress_addresses |-> network.ingress_addresses]

network_get(st, args) ==
    LET name == args[1]
        i == FirstIndex([j \in 1..Len(st.networks) |-> st.networks[j].name = name])
    IN  IF i = 0 THEN Raise("StopIteration", None)
        ELSE Return(hook_tool_output_fmt(st.networks[i].network))

UnsupportedGetters ==
    {"action_get", "relation_remote_app_name", "resource_get", "storage_list",
     "storage_get", "planned_units"}

-----------------------------------------------------------------------------
(* namespace "_ModelBackend": the setters.  Each gives the result and the    *)
(* State as the call leaves it.                                              *)

application_version_set(st, args) ==
    [res |-> Return(None),
     st |-> [st EXCEPT !.status.app_version = args[1]]]

status_set(st, args, kwargs) ==
    [res |-> Return(None),
     st |-> IF KwFlag(kwargs, "is_app")
            THEN [st EXCEPT !.status.app = args]
            ELSE [st EXCEPT !.status.unit = args]]

juju_log(st, args) ==
    [res |-> Return(None),
     st |-> [st EXCEPT !.juju_log = Append(@, args)]]

\* a leadership test that lets every write through
NeedsLeadershipNever(app, leader) == FALSE

\* the leadership test of relation_set
NeedsLeadership(app, leader) == app /\ ~leader

relation_set(st, args) ==
    LET rel_id == args[1]
        key == args[2]
        value == args[3]
        app == args[4]
        i == RelationIndex(st.relations, rel_id)
    IN  IF i = 0 THEN [res |-> Raise("StopIteration", None), st |-> st]
        ELSE IF NeedsLeadership(app, st.leader)
             THEN [res |-> Raise("RuntimeError", "needs leadership to set app data"),
                   st |-> st]
        ELSE IF app
             THEN [res |-> Return(None),
                   st |-> [st EXCEPT !.relations[i].local_app_data =
                                        DictSet(@, key, value)]]
        ELSE [res |-> Return(None),
              st |-> [st EXCEPT !.relations[i].local_unit_data =
                                   DictSet(@, key, value)]]

\* a table of setters that has lost its last entry
UnsupportedSettersButLast ==
    {"action_set", "action_fail", "action_log", "storage_add", "secret_get",
     "secret_set", "secret_grant"}

UnsupportedSetters ==
    {"action_set", "action_fail", "action_log", "storage_add", "secret_get",
     "secret_set", "secret_grant", "secret_remove"}

\* the dispatch on tool_name within the "_ModelBackend" namespace
ModelBackend(st, charm_spec, tool_name, args, kwargs) ==
    CASE tool_name = "relation_get" -> Body(relation_get(st, args), st, FALSE, TRUE)
      [] tool_name = "is_leader" -> Body(is_leader(st), st, FALSE, TRUE)
      [] tool_name = "status_get" -> Body(status_get(st, kwargs), st, FALSE, TRUE)
      [] tool_name = "relation_ids" -> Body(relation_ids(st), st, FALSE, TRUE)
      [] tool_name = "relation_list" -> Body(relation_list(st, args), st, FALSE, TRUE)
      [] tool_name = "config_get" ->
            Body(config_get(st, charm_spec, args), st, FALSE, TRUE)
      [] tool_name = "network_get" -> Body(network_get(st, args), st, FALSE, TRUE)
      [] tool_name \in UnsupportedGetters ->
            Body(Raise("NotImplementedError", tool_name), st, FALSE, TRUE)
      [] tool_name = "application_version_set" ->
            LET r == application_version_set(st, args)
            IN  Body(r.res, r.st, TRUE, TRUE)
      [] tool_name = "status_set" ->
            LET r == status_set(st, args, kwargs) IN Body(r.res, r.st, TRUE, TRUE)
      [] tool_name = "juju_log" ->
            LET r == juju_log(st, args) IN Body(r.res, r.st, TRUE, TRUE)
      [] tool_name = "relation_set" ->
            LET r == relation_set(st, args) IN Body(r.res, r.st, TRUE, TRUE)
      [] tool_name \in UnsupportedSetters ->
            Body(Raise("NotImplementedError", tool_name), st, TRUE, TRUE)
      [] OTHER -> Body(FallThrough, st, TRUE, TRUE)

-----------------------------------------------------------------------------
(* namespace "Client": the container's filesystem tree                       *)

IsPrefix(p, q) == Len(p) <= Len(q) /\ SubSeq(q, 1, Len(p)) = p

\* the dict at pos has no entry: "not d" for a dict d
IsEmptyDir(fs, pos) == ~\E q \in DOMAIN fs : Len(q) = Len(pos) + 1 /\ IsPrefix(pos, q)

\* "not x" for x = d.get(token): x is None or an empty dict (a Path is true)
Falsy(fs, child) ==
    \/ child \notin DOMAIN fs
    \/ fs[child].kind = "dir" /\ IsEmptyDir(fs, child)

\* d[token] = node: binds the entry, dropping whatever hung below it before
Bind(fs, child, node) ==
    [q \in {r \in DOMAIN fs : ~IsPrefix(child, r)} \cup {child} |->
        IF q = child THEN node ELSE fs[q]]

\* os.linesep of the platform the tests run on
linesep == <<LF>>

\* Path.write_text(contents): text mode, every "\n" written as os.linesep
RECURSIVE WriteText(_)
WriteText(text) ==
    IF text = << >> THEN << >>
    ELSE (IF Head(text) = LF THEN linesep ELSE <<Head(text)>>) \o WriteText(Tail(text))

\* Path.open().read(): text mode with universal newlines, "\r\n" and "\r"
\* are read as "\n"
RECURSIVE ReadText(_)
ReadText(data) ==
    IF data = << >> THEN << >>
    ELSE IF Head(data) = CR
         THEN <<LF>> \o ReadText(IF Len(data) >= 2 /\ data[2] = LF
                                 THEN Tail(Tail(data)) ELSE Tail(data))
    ELSE <<Head(data)>> \o ReadText(Tail(data))

\* the loop of pull: pos = pos.get(token) for each token
RECURSIVE PullWalk(_, _, _)
PullWalk(fs, tokens, pos) ==
    IF tokens = << >> THEN [kind |-> "at", pos |-> pos]
    ELSE IF fs[pos].kind # "dir" THEN Raise("AttributeError", "get")
    ELSE IF Falsy(fs, Append(pos, Head(tokens))) THEN Raise("FileNotFoundError", None)
    ELSE PullWalk(fs, Tail(tokens), Append(pos, Head(tokens)))

pull(container, args) ==
    LET path_txt == args[1]
        fs == container.filesystem
        walk == PullWalk(fs, Rest(Strs(Split(path_txt, "/"))), << >>)
        node == fs[walk.pos]
    IN  IF walk.kind = "raise" THEN walk
        ELSE IF node.kind = "dir" THEN Raise("TypeError", "Path")
        ELSE IF node.on_disk # "file" THEN Raise("FileNotFoundError", None)
        ELSE Return([read |-> ReadText(node.data)])

\* the loop of push over tokens[:-1]; gives the tree as the loop leaves it
RECURSIVE PushWalk(_, _, _, _)
PushWalk(fs, tokens, pos, kwargs) ==
    LET child == Append(pos, Head(tokens))
    IN  IF tokens = << >> THEN [kind |-> "at", pos |-> pos, fs |-> fs]
        ELSE IF fs[pos].kind # "dir"
             THEN [kind |-> "raise", type |-> "AttributeError", arg |-> "get", fs |-> fs]
        ELSE IF Falsy(fs, child) /\ "make_dirs" \notin DOMAIN kwargs
             THEN [kind |-> "raise", type |-> "KeyError", arg |-> "make_dirs", fs |-> fs]
        ELSE IF Falsy(fs, child) /\ kwargs["make_dirs"]
             THEN PushWalk(Bind(fs, child, Dir), Tail(tokens), child, kwargs)
        ELSE IF Falsy(fs, child)
             THEN [kind |-> "raise", type |-> "FileNotFoundError", arg |-> None, fs |-> fs]
        ELSE PushWalk(fs, Tail(tokens), child, kwargs)

\* gives the result and the container's filesystem as the call leaves it
push(container, args, kwargs) ==
    LET path_txt == args[1]
        contents == args[2]
        tokens == Rest(Strs(Split(path_txt, "/")))
        walk == PushWalk(container.filesystem, ButLast(tokens), << >>, kwargs)
    IN  IF walk.kind = "raise"
        THEN [res |-> Raise(walk.type, walk.arg), fs |-> walk.fs]
        ELSE IF contents.type # "str"
             THEN [res |-> Raise("TypeError", "write_text"), fs |-> walk.fs]
        ELSE IF tokens = << >>
             THEN [res |-> Raise("IndexError", None), fs |-> walk.fs]
        ELSE IF walk.fs[walk.pos].kind # "dir"
             THEN [res |-> Raise("TypeError", "setitem"), fs |-> walk.fs]
        ELSE [res |-> Return(None),
              fs |-> Bind(walk.fs, Append(walk.pos, tokens[Len(tokens)]),
                          Leaf("file", WriteText(contents.data)))]

-----------------------------------------------------------------------------
(* namespace "Client": requests and exec                                     *)

\* a probe that answers for an unreachable container as well
SystemInfoAlways(container) ==
    [res |-> Return([result |-> [version |-> "unknown"]]), wrap_errors |-> TRUE]

\* _request("GET", "/v1/system-info")
SystemInfo(container) ==
    IF container.can_connect
    THEN [res |-> Return([result |-> [version |-> "unknown"]]), wrap_errors |-> TRUE]
    ELSE [res |-> Raise("FileNotFoundError", ""), wrap_errors |-> FALSE]

\* list.remove(x): drops the first element equal to x
RemoveFirst(seq, x) ==
    LET i == CHOOSE j \in 1..Len(seq) : seq[j] = x /\ \A h \in 1..(j - 1) : seq[h] # x
    IN  SubSeq(seq, 1, i - 1) \o SubSeq(seq, i + 1, Len(seq))

\* "for name in service_names" over one layer: the list iterator holds an
\* index into the live list, which the loop body shortens
RECURSIVE ScanLayer(_, _, _, _)
ScanLayer(layer, service_names, idx, result) ==
    IF idx > Len(service_names)
    THEN [service_names |-> service_names, result |-> result]
    ELSE LET name == service_names[idx]
         IN  IF name \in DOMAIN layer.services
             THEN ScanLayer(layer, RemoveFirst(service_names, name), idx + 1,
                            Append(result, layer.services[name]))
             ELSE ScanLayer(layer, service_names, idx + 1, result)

RECURSIVE ScanLayers(_, _, _)
ScanLayers(layers, service_names, result) ==
    IF layers = << >> \/ service_names = << >> THEN result
    ELSE LET r == ScanLayer(Head(layers), service_names, 1, result)
         IN  ScanLayers(Tail(layers), r.service_names, r.result)

Services(container, args) ==
    Return([result |-> ScanLayers(container.layers,
                                  Strs(Split(args[3].names, ",")), << >>)])

request(container, args) ==
    IF Len(args) = 2 /\ args[1] = "GET" /\ args[2] = "/v1/system-info"
    THEN SystemInfo(container)
    ELSE IF Len(args) >= 2 /\ args[1] = "GET" /\ args[2] = "/v1/services"
         THEN [res |-> IF Len(args) < 3 THEN Raise("IndexError", None)
                       ELSE Services(container, args),
               wrap_errors |-> TRUE]
    ELSE [res |-> Raise("NotImplementedError", "_request"), wrap_errors |-> TRUE]

\* typing.TYPE_CHECKING is False when the module runs
TYPE_CHECKING == FALSE

\* the names bound in the module's globals once it is imported: "pebble" is
\* imported under "if TYPE_CHECKING:" only
ModuleGlobals ==
    {"functools", "tempfile", "StringIO", "Path", "scenario_logger", "ExecOutput",
     "logger"} \cup (IF TYPE_CHECKING THEN {"pebble", "CharmSpec", "Scene"} ELSE {})

\* raise pebble.ExecError(list(self._command), exit_code, None, None)
RaiseExecError(command, exit_code) ==
    IF "pebble" \in ModuleGlobals
    THEN Raise("ExecError", [command |-> command, exit_code |-> exit_code])
    ELSE Raise("NameError", "pebble")

\* _MockExecProcess(change_id=change_id, command=cmd, out=out)
MockExecProcess(command, change_id, out) ==
    [command |-> command, change_id |-> change_id, out |-> out, waited |-> FALSE]

\* _MockExecProcess.wait: gives the result and the handle as the call leaves it
wait(proc) ==
    [res |-> IF proc.out.return_code # 0
             THEN RaiseExecError(proc.command, proc.out.return_code)
             ELSE Return(None),
     proc |-> [proc EXCEPT !.waited = TRUE]]

\* _MockExecProcess.wait_output
wait_output(proc) ==
    [res |-> IF proc.out.return_code # 0
             THEN RaiseExecError(proc.command, proc.out.return_code)
             ELSE Return(<<proc.out.stdout, proc.out.stderr>>),
     proc |-> proc]

exec(container, args, change_id) ==
    LET cmd == args[1]
    IN  IF cmd \notin DOMAIN container.exec_mock
        THEN Raise("RuntimeError", "mock for cmd not found")
        ELSE Return(MockExecProcess(cmd, change_id, container.exec_mock[cmd]))

\* a lookup whose failure is let out as it is raised
ContainerLookupUnwrapped(containers, client) ==
    LET segments == Strs(Split(client.socket_path, "/"))
        container_name == segments[Len(segments) - 1]
        i == FirstIndex([j \in 1..Len(containers) |->
                            containers[j].name = container_name])
    IN  IF Len(segments) < 2
        THEN [i |-> 0, res |-> Raise("IndexError", None), wrap_errors |-> FALSE]
        ELSE IF i = 0
             THEN [i |-> 0, res |-> Raise("RuntimeError", "container not found"),
                   wrap_errors |-> FALSE]
        ELSE [i |-> i, res |-> Return(None), wrap_errors |-> TRUE]

\* client.socket_path.split("/")[-2] and next(filter(...)) over the
\* containers, with the "except StopIteration: raise RuntimeError(...)" around
\* it: the index of the container, or what is raised and whether the except
\* handler of wrap_tool wraps it
ContainerLookup(containers, client) ==
    LET segments == Strs(Split(client.socket_path, "/"))
        container_name == segments[Len(segments) - 1]
        i == FirstIndex([j \in 1..Len(containers) |->
                            containers[j].name = container_name])
    IN  IF Len(segments) < 2
        THEN [i |-> 0, res |-> Raise("IndexError", None), wrap_errors |-> TRUE]
        ELSE IF i = 0
             THEN [i |-> 0, res |-> Raise("RuntimeError", "container not found"),
                   wrap_errors |-> TRUE]
        ELSE [i |-> i, res |-> Return(None), wrap_errors |-> TRUE]

\* the dispatch on tool_name within the "Client" namespace
Client(st, tool_name, call_args, kwargs, change_id) ==
    LET client == call_args[1]
        args == Rest(call_args)
        found == ContainerLookup(st.containers, client)
        i == found.i
        container == st.containers[i]
    IN  IF i = 0 THEN Body(found.res, st, FALSE, found.wrap_errors)
        ELSE CASE tool_name = "_request" ->
                    LET r == request(container, args)
                    IN  Body(r.res, st, FALSE, r.wrap_errors)
               [] tool_name = "exec" ->
                    Body(exec(container, args, change_id), st, FALSE, TRUE)
               [] tool_name = "pull" -> Body(pull(container, args), st, FALSE, FALSE)
               [] tool_name = "push" ->
                    LET r == push(container, args, kwargs)
                    IN  Body(r.res, [st EXCEPT !.containers[i].filesystem = r.fs],
                             TRUE, FALSE)
               [] OTHER -> Body(FallThrough, st, FALSE, TRUE)

-----------------------------------------------------------------------------
(* wrap_tool: the dispatch on the namespace, the except handler and the      *)
(* raise after it                                                            *)

NoCause == [type |-> None, arg |-> None]

\* the classes an "except StateError" catches: StateError and its subclass
StateErrors == {"StateError", "QuestionNotImplementedError"}

\* the attributes of the exception wrap_tool lets out
Exc(type, arg, cause) == [type |-> type, arg |-> arg, cause |-> cause]

\* the body of the try block
Dispatch(st, charm_spec, namespace, tool_name, call_args, kwargs, change_id) ==
    IF namespace = "_ModelBackend"
    THEN ModelBackend(st, charm_spec, tool_name, Rest(call_args), kwargs)
    ELSE IF namespace = "Client"
         THEN Client(st, tool_name, call_args, kwargs, change_id)
    ELSE Body(Raise("QuestionNotImplementedError", namespace), st, FALSE, TRUE)

\* a handler that lets every exception out as it was raised
ExceptHandlerReraise(b, namespace, tool_name, call_args, kwargs) ==
    CASE b.res.kind = "return" -> [kind |-> "return", value |-> b.res.value]
      [] b.res.kind = "raise" ->
            [kind |-> "raise", exc |-> Exc(b.res.type, b.res.arg, NoCause)]
      [] b.res.kind = "fall" ->
            [kind |-> "raise",
             exc |-> Exc("QuestionNotImplementedError",
                         [namespace |-> namespace, tool_name |-> tool_name,
                          call_args |-> call_args, call_kwargs |-> kwargs],
                         NoCause)]

\* "except Exception as e", and the raise that follows the try statement
ExceptHandler(b, namespace, tool_name, call_args, kwargs) ==
    CASE b.res.kind = "return" -> [kind |-> "return", value |-> b.res.value]
      [] b.res.kind = "raise" /\ ~b.wrap_errors ->
            [kind |-> "raise", exc |-> Exc(b.res.type, b.res.arg, NoCause)]
      [] b.res.kind = "raise" /\ b.wrap_errors ->
            [kind |-> "raise",
             exc |-> Exc("StateError",
                         [action |-> IF b.setter THEN "setting" ELSE "getting",
                          namespace |-> namespace, tool_name |-> tool_name,
                          call_args |-> call_args, call_kwargs |-> kwargs],
                         [type |-> b.res.type, arg |-> b.res.arg])]
      [] b.res.kind = "fall" ->
            [kind |-> "raise",
             exc |-> Exc("QuestionNotImplementedError",
                         [namespace |-> namespace, tool_name |-> tool_name,
                          call_args |-> call_args, call_kwargs |-> kwargs],
                         NoCause)]

\* gives the outcome of the call and the State as the call leaves it
wrap_tool(st, charm_spec, namespace, tool_name, call_args, kwargs, change_id) ==
    LET b == Dispatch(st, charm_spec, namespace, tool_name, call_args, kwargs,
                      change_id)
    IN  [outcome |-> ExceptHandler(b, namespace, tool_name, call_args, kwargs),
         st |-> b.st]

-----------------------------------------------------------------------------
(* The calls a charm makes.  call_args[0] is the object the method is        *)
(* called on: the model backend, or a pebble client with its socket path.    *)

BackendSelf == "backend"

SocketPath(name) == <<"/", "charm", "/", "containers", "/", name, "/", "pebble.socket">>

\* the clients of the two containers of the Scene, and one of a container
\* the Scene does not have
Client1 == [socket_path |-> SocketPath("c1")]
Client2 == [socket_path |-> SocketPath("c2")]
Ghost == [socket_path |-> SocketPath("ghost")]
Clients == {Client1, Client2, Ghost}

RelIds == {1, 2, 9}
ObjNames == {<<"local">>, <<"remote">>, <<"local", "/", "0">>, <<"remote", "/", "1">>}
Keys == {"k1", "k2"}
Values == {"v1"}
ConfigArgs == {<< >>, <<"opt_a">>, <<"opt_b">>, <<"nope">>}
Statuses == {<<"active", "">>, <<"blocked", "why">>}
\* the scope flag of status_get, under the keyword the simulator reads and
\* under the keyword status_set takes it
StatusGetKwargs == [{"app"} -> BOOLEAN] \cup [{"is_app"} -> BOOLEAN]
Commands == {<<"ls">>, <<"false">>, <<"nope">>}
Csvs == {<<"a">>, <<"a", ",", "b">>, <<"b", ",", "a">>, <<"c", ",", "z">>}
Paths ==
    {<<"/", "etc", "/", "conf">>, <<"/", "new", "/", "x">>, <<"/", "empty", "/", "x">>,
     <<"/", "f", "/", "x", "/", "y">>, <<"/", "etc">>, <<"/", "gone">>}
Contents ==
    {[type |-> "str", data |-> <<"hi">>], [type |-> "str", data |-> <<"a", CR, LF, "b">>],
     [type |-> "bytes", data |-> <<"hi">>]}
PushKwargs == {[make_dirs |-> TRUE], [make_dirs |-> FALSE]}

\* every path is used on the first container; the other clients get one
PathsOf(client) == IF client = Client1 THEN Paths ELSE {<<"/", "new", "/", "x">>}
ContentsOf(client) ==
    IF client = Client1 THEN Contents ELSE {[type |-> "str", data |-> <<"hi">>]}
UnknownTools == {"relation_gett", "pul"}
\* the operations of the model backend a charm may call that have no simulation
UnsupportedOperations ==
    {"action_get", "relation_remote_app_name", "resource_get", "storage_list",
     "storage_get", "planned_units", "action_set", "action_fail", "action_log",
     "storage_add", "secret_get", "secret_set", "secret_grant", "secret_remove"}
UnsupportedArgs == {<< >>, <<"x">>}
UnknownNamespaces == {"Model"}

NoCall ==
    [namespace |-> None, tool_name |-> None, call_args |-> << >>,
     call_kwargs |-> EmptyDict]

\* out._run(): a change id no earlier exec of the run was given
NewChangeId == ncalls + 1

\* _log_call: the line handed to log_fn, with the output it reports
log_call(namespace, tool_name, args, kwargs, recorded_output) ==
    [namespace |-> namespace, tool_name |-> tool_name, args |-> args,
     kwargs |-> kwargs, output |-> recorded_output]

\* the Scenes a module may be patched for, and the State of each
SceneNames == {"A", "B"}
Scenes == [A |-> state, B |-> scene_b]

\* wrap(fn, namespace, tool_name, scene, charm_spec): the wrapper it returns
\* closes over its arguments.  A method is bound to the sequence of the
\* wrappers put around the original function, the outermost last, so that fn
\* is what comes before.
wrap(fn, namespace, tool_name, scene) ==
    Append(fn, [namespace |-> namespace, tool_name |-> tool_name, scene |-> scene])

\* a wrapper that runs the function it wraps as well, when that is a wrapper
wrapper_forwarding(bound, scenes, call_args, kwargs, change_id) ==
    LET w == bound[Len(bound)]
        fn == ButLast(bound)
        inner == IF fn = << >> THEN scenes
                 ELSE LET v == fn[Len(fn)]
                      IN  [scenes EXCEPT ![v.scene] =
                              wrap_tool(@, CharmSpec, v.namespace, v.tool_name,
                                        call_args, kwargs, change_id).st]
        r == wrap_tool(inner[w.scene], CharmSpec, w.namespace, w.tool_name, call_args,
                       kwargs, change_id)
    IN  [outcome |-> r.outcome,
         scenes |-> [inner EXCEPT ![w.scene] = r.st],
         logged |-> IF r.outcome.kind = "return"
                    THEN <<log_call(w.namespace, w.tool_name, call_args, kwargs,
                                    r.outcome.value)>>
                    ELSE << >>]

\* the wrapper that wrap() returns, called with call_args and call_kwargs: the
\* simulator runs on the State of the wrapper's Scene, with fn handed over
\* and left alone, and once it has returned the call is logged.  Gives the
\* outcome, the States of the Scenes and the log lines written.
wrapper(bound, scenes, call_args, kwargs, change_id) ==
    LET w == bound[Len(bound)]
        r == wrap_tool(scenes[w.scene], CharmSpec, w.namespace, w.tool_name, call_args,
                       kwargs, change_id)
    IN  [outcome |-> r.outcome,
         scenes |-> [scenes EXCEPT ![w.scene] = r.st],
         logged |-> IF r.outcome.kind = "return"
                    THEN <<log_call(w.namespace, w.tool_name, call_args, kwargs,
                                    r.outcome.value)>>
                    ELSE << >>]

\* one call of a method bound to wrappers
InterceptBy(bound, call_args, kwargs) ==
    /\ budget > 0
    /\ \E r \in {wrapper(bound, Scenes, call_args, kwargs, NewChangeId)} :
       LET w == bound[Len(bound)]
           handle == w.namespace = "Client" /\ w.tool_name = "exec"
                     /\ r.outcome.kind = "return"
       IN  /\ state' = r.scenes.A
           /\ scene_b' = r.scenes.B
           /\ before' = Scenes[w.scene]
           /\ outcome' = r.outcome
           /\ logged' = r.logged
           /\ process' = IF handle THEN <<r.outcome.value>> ELSE process
           /\ waited' = IF handle THEN << >> ELSE waited
           /\ call' = [namespace |-> w.namespace, tool_name |-> w.tool_name,
                       call_args |-> call_args, call_kwargs |-> kwargs]
    /\ ncalls' = ncalls + 1
    /\ budget' = budget - 1
    /\ UNCHANGED classes

\* one intercepted call, as the wrapper installed for the Scene of the run
\* makes it
Intercept(namespace, tool_name, call_args, kwargs) ==
    InterceptBy(wrap(<< >>, namespace, tool_name, "A"), call_args, kwargs)

-----------------------------------------------------------------------------
(* Installing the wrappers: patch_module and patch_class                     *)

\* the classes of the patched module in the order of module.__dict__, and the
\* methods of each in the order of the class's __dict__
ModuleClasses == <<"_ModelBackend", "Client">>
ClassMethods ==
    ("_ModelBackend" :> <<"is_leader", "juju_log">>) @@ ("Client" :> <<"pull">>)

\* the module as it is imported: every method is the original function
Unpatched ==
    [name \in DOMAIN ClassMethods |->
        [m \in {ClassMethods[name][k] : k \in 1..Len(ClassMethods[name])} |-> << >>]]

\* the loop of patch_class over obj.__dict__.items(); specs is the set of the
\* method names that have a DecorateSpec
RECURSIVE PatchMethods(_, _, _, _, _)
PatchMethods(obj, names, specs, obj_name, scene) ==
    IF names = << >> THEN obj
    ELSE LET meth_name == Head(names)
         IN  PatchMethods(IF meth_name \notin specs THEN obj
                          ELSE [obj EXCEPT ![meth_name] =
                                   wrap(@, obj_name, meth_name, scene)],
                          Tail(names), specs, obj_name, scene)

patch_class(specs, obj, obj_name, scene) ==
    PatchMethods(obj, ClassMethods[obj_name], specs, obj_name, scene)

\* the loop of patch_module over module.__dict__.items()
RECURSIVE PatchClasses(_, _, _, _)
PatchClasses(module, names, decorate, scene) ==
    IF names = << >> THEN module
    ELSE LET name == Head(names)
             specs == IF name \in DOMAIN decorate THEN decorate[name] ELSE {}
         IN  PatchClasses(IF specs = {} THEN module
                          ELSE [module EXCEPT ![name] =
                                   patch_class(specs, @, name, scene)],
                          Tail(names), decorate, scene)

patch_module(module, decorate, scene) ==
    PatchClasses(module, ModuleClasses, decorate, scene)

\* the decorate mappings the module is patched with: every method, and two
\* that name one method each
DecorateAll ==
    ("_ModelBackend" :> {"is_leader", "juju_log"}) @@ ("Client" :> {"pull"})
Decorations ==
    {DecorateAll, ("_ModelBackend" :> {"juju_log"}), ("_ModelBackend" :> {"is_leader"})}

\* the State of the second Scene
SceneB == InitialState(FALSE, [opt_b |-> "b1"])

NoCalls ==
    /\ before = state
    /\ call = NoCall
    /\ outcome = [kind |-> "none"]
    /\ logged = << >>
    /\ process = << >>
    /\ waited = << >>
    /\ ncalls = 0

\* the module is patched once, for the Scene of the run
PatchedOnce ==
    /\ classes = patch_module(Unpatched, DecorateAll, "A")
    /\ scene_b = SceneB

\* a run starts from the State the test author built
Init ==
    /\ \E leader \in BOOLEAN, config \in Configs : state = InitialState(leader, config)
    /\ PatchedOnce
    /\ NoCalls
    /\ budget = MaxCalls

\* the same, for a run that calls into both namespaces
InitMixed ==
    /\ \E leader \in BOOLEAN, config \in Configs : state = InitialState(leader, config)
    /\ PatchedOnce
    /\ NoCalls
    /\ budget = MaxMixed

\* the "Client" namespace reads neither State.leader nor State.config
InitClient ==
    /\ state = InitialState(TRUE, EmptyDict)
    /\ PatchedOnce
    /\ NoCalls
    /\ budget = MaxCalls

\* two Scenes, and a module that is not patched yet
InitPatch ==
    /\ state = InitialState(TRUE, EmptyDict)
    /\ scene_b = SceneB
    /\ classes = Unpatched
    /\ NoCalls
    /\ budget = MaxCalls

RelationGet ==
    \E rel_id \in RelIds, obj_name \in ObjNames, app \in BOOLEAN :
        Intercept("_ModelBackend", "relation_get",
                  <<BackendSelf, rel_id, obj_name, app>>, EmptyDict)

IsLeader == Intercept("_ModelBackend", "is_leader", <<BackendSelf>>, EmptyDict)

StatusGet ==
    \E kwargs \in StatusGetKwargs :
        Intercept("_ModelBackend", "status_get", <<BackendSelf>>, kwargs)

RelationIds == Intercept("_ModelBackend", "relation_ids", <<BackendSelf>>, EmptyDict)

RelationList ==
    \E rel_id \in RelIds :
        Intercept("_ModelBackend", "relation_list", <<BackendSelf, rel_id>>, EmptyDict)

ConfigGet ==
    \E args \in ConfigArgs :
        Intercept("_ModelBackend", "config_get", <<BackendSelf>> \o args, EmptyDict)

NetworkGet ==
    \E name \in {"eth0", "wlan0"} :
        Intercept("_ModelBackend", "network_get", <<BackendSelf, name, None>>, EmptyDict)

Unsupported ==
    \E tool_name \in UnsupportedOperations, args \in UnsupportedArgs :
        Intercept("_ModelBackend", tool_name, <<BackendSelf>> \o args, EmptyDict)

ApplicationVersionSet ==
    Intercept("_ModelBackend", "application_version_set", <<BackendSelf, "1.0">>,
              EmptyDict)

StatusSet ==
    \E args \in Statuses, is_app \in BOOLEAN :
        Intercept("_ModelBackend", "status_set", <<BackendSelf>> \o args,
                  [is_app |-> is_app])

JujuLog ==
    Intercept("_ModelBackend", "juju_log", <<BackendSelf, "INFO", "msg">>, EmptyDict)

RelationSet ==
    \E rel_id \in RelIds, key \in Keys, value \in Values, app \in BOOLEAN :
        Intercept("_ModelBackend", "relation_set",
                  <<BackendSelf, rel_id, key, value, app>>, EmptyDict)

SystemInfoRequest ==
    \E client \in Clients :
        Intercept("Client", "_request", <<client, "GET", "/v1/system-info">>, EmptyDict)

ServicesRequest ==
    \E client \in {Client1, Ghost}, csv \in Csvs :
        Intercept("Client", "_request",
                  <<client, "GET", "/v1/services", [names |-> csv]>>, EmptyDict)

OtherRequest ==
    \E client \in Clients :
        Intercept("Client", "_request", <<client, "POST", "/v1/services">>, EmptyDict)

Exec ==
    \E client \in Clients, cmd \in Commands :
        Intercept("Client", "exec", <<client, cmd>>, EmptyDict)

Pull ==
    \E client \in Clients :
        \E path \in PathsOf(client) :
            Intercept("Client", "pull", <<client, path>>, EmptyDict)

Push ==
    \E client \in Clients, kwargs \in PushKwargs :
        \E path \in PathsOf(client), contents \in ContentsOf(client) :
            Intercept("Client", "push", <<client, path, contents>>, kwargs)

UnknownBackendTool ==
    \E tool_name \in UnknownTools :
        Intercept("_ModelBackend", tool_name, <<BackendSelf>>, EmptyDict)

UnknownClientTool ==
    \E tool_name \in UnknownTools, client \in {Client1, Ghost} :
        Intercept("Client", tool_name, <<client>>, EmptyDict)

UnknownNamespace ==
    \E namespace \in UnknownNamespaces, tool_name \in UnknownTools \cup {"relation_get"} :
        Intercept(namespace, tool_name, <<BackendSelf>>, EmptyDict)

\* process.wait() on the handle of the last exec
Wait ==
    /\ process # << >>
    /\ Len(waited) < MaxWaits
    /\ LET r == wait(process[1])
       IN  /\ process' = <<r.proc>>
           /\ waited' = Append(waited, [method |-> "wait", res |-> r.res])
    /\ UNCHANGED <<state, before, call, outcome, logged, classes, scene_b, ncalls,
                   budget>>

\* process.wait_output() on the handle of the last exec
WaitOutput ==
    /\ process # << >>
    /\ Len(waited) < MaxWaits
    /\ LET r == wait_output(process[1])
       IN  /\ process' = <<r.proc>>
           /\ waited' = Append(waited, [method |-> "wait_output", res |-> r.res])
    /\ UNCHANGED <<state, before, call, outcome, logged, classes, scene_b, ncalls,
                   budget>>

\* patch_module(module, decorate, scene) for one of the Scenes
PatchModule ==
    \E decorate \in Decorations, scene \in SceneNames :
        /\ classes' = patch_module(classes, decorate, scene)
        /\ \A name \in DOMAIN classes' : \A m \in DOMAIN classes'[name] :
              Len(classes'[name][m]) <= MaxInstalls
        /\ UNCHANGED <<state, before, call, outcome, logged, scene_b, process, waited,
                       ncalls, budget>>

\* a call of a method of the module that has been patched
CallIsLeader ==
    /\ classes["_ModelBackend"]["is_leader"] # << >>
    /\ InterceptBy(classes["_ModelBackend"]["is_leader"], <<BackendSelf>>, EmptyDict)

CallJujuLog ==
    /\ classes["_ModelBackend"]["juju_log"] # << >>
    /\ \E message \in {"m1", "m2"} :
          InterceptBy(classes["_ModelBackend"]["juju_log"],
                      <<BackendSelf, "INFO", message>>, EmptyDict)

CallPull ==
    /\ classes["Client"]["pull"] # << >>
    /\ \E path \in {<<"/", "etc", "/", "conf">>, <<"/", "gone">>} :
          InterceptBy(classes["Client"]["pull"], <<Client1, path>>, EmptyDict)

\* patching the module and calling its patched methods, in any order
NextPatch == PatchModule \/ CallIsLeader \/ CallJujuLog \/ CallPull

\* the calls on the model backend
NextBackend ==
    \/ RelationGet \/ IsLeader \/ StatusGet \/ RelationIds \/ RelationList
    \/ ConfigGet \/ NetworkGet \/ Unsupported
    \/ ApplicationVersionSet \/ StatusSet \/ JujuLog \/ RelationSet
    \/ UnknownBackendTool \/ UnknownNamespace

\* the calls on the pebble clients
ClientCalls ==
    \/ SystemInfoRequest \/ ServicesRequest \/ OtherRequest
    \/ Exec \/ Pull \/ Push
    \/ UnknownClientTool

\* the calls on the pebble clients and on the exec handles they give
NextClient == ClientCalls \/ Wait \/ WaitOutput

Next == NextBackend \/ NextClient

Spec == Init /\ [][Next]_vars

SpecBackend == Init /\ [][NextBackend]_vars

SpecClient == InitClient /\ [][NextClient]_vars

\* the calls of a charm that uses both the model backend and the containers
SpecMixed == InitMixed /\ [][Next]_vars

SpecPatch == InitPatch /\ [][NextPatch]_vars

-----------------------------------------------------------------------------
(* Properties.  The vocabulary they share.                                   *)

Called(namespace, tool_name) ==
    call.namespace = namespace /\ call.tool_name = tool_name

\* call_args[1:] of the last call
Args == Rest(call.call_args)

Returned == outcome.kind = "return"
Raised == outcome.kind = "raise"

\* the call let out the exception of that type as it was raised
RaisedUnwrapped(type) == Raised /\ outcome.exc.type = type

\* the call let out a StateError made from an exception of that type
RaisedWrapped(type) ==
    Raised /\ outcome.exc.type = "StateError" /\ outcome.exc.cause.type = type

\* the relation id is one of a relation of the State the call was made on
RelationPresent(rel_id) ==
    \E i \in 1..Len(before.relations) : before.relations[i].meta.relation_id = rel_id

\* the container the client handle of the last call names, if any
NamedContainers ==
    IF call.namespace # "Client" THEN {}
    ELSE {i \in 1..Len(before.containers) :
            SocketPath(before.containers[i].name) = call.call_args[1].socket_path}

-----------------------------------------------------------------------------
(* relation data *)

SetAppData(c) ==
    /\ c.namespace = "_ModelBackend" /\ c.tool_name = "relation_set"
    /\ c.call_args[5]

GetLocalAppData(c) ==
    /\ c.namespace = "_ModelBackend" /\ c.tool_name = "relation_get"
    /\ c.call_args[4] /\ Str(c.call_args[3]) = this_app_name

\* C1: for a relation id present in the Scene and State.leader true, a
\* relation_set(id, k, v, app=True) followed by relation_get(id, <local app>,
\* app=True) returns a mapping in which k maps to v.
C1_ReadAfterWrite ==
    [][(/\ ncalls' = ncalls + 1
        /\ SetAppData(call) /\ state.leader /\ RelationPresent(call.call_args[2])
        /\ GetLocalAppData(call') /\ call'.call_args[2] = call.call_args[2])
       => (/\ outcome'.kind = "return"
           /\ call.call_args[3] \in DOMAIN outcome'.value
           /\ outcome'.value[call.call_args[3]] = call.call_args[4])]_vars

\* relation_get has returned the local app data of relation 2, and key k2,
\* which no relation of the initial State holds as app data, maps to the
\* value a relation_set wrote
C1_Witness ==
    /\ GetLocalAppData(call) /\ call.call_args[2] = 2 /\ before.leader
    /\ Returned /\ "k2" \in DOMAIN outcome.value /\ outcome.value["k2"] = "v1"

PermissionFailure ==
    /\ RaisedWrapped("RuntimeError")
    /\ outcome.exc.cause.arg = "needs leadership to set app data"

\* C2 as stated: a relation_set with the app flag set while State.leader is
\* false always fails with the permission condition, and the whole State is
\* the same after the failed call as before it.
C2_AlwaysPermissionFailure ==
    (SetAppData(call) /\ ~before.leader) => (PermissionFailure /\ state = before)

\* C2 as amended: a relation_set with the app flag set while State.leader is
\* false fails and leaves the whole State as it was; on a relation id present
\* in the Scene the failure is the permission condition, on any other id it is
\* the failed lookup of the relation.
C2_PermissionFailureOnPresentRelation ==
    (SetAppData(call) /\ ~before.leader)
        => /\ state = before
           /\ IF RelationPresent(Args[1]) THEN PermissionFailure
              ELSE RaisedWrapped("StopIteration")

C2_Witness ==
    /\ SetAppData(call) /\ ~before.leader /\ RelationPresent(Args[1])
    /\ Raised

-----------------------------------------------------------------------------
(* the system-info probe *)

SystemInfoProbe == Called("Client", "_request") /\ Args = <<"GET", "/v1/system-info">>

\* C3: _request("GET", "/v1/system-info") returns the version payload if and
\* only if the resolved container's can_connect flag is true; when the flag
\* is false it raises FileNotFoundError itself, not wrapped in a StateError.
C3_SystemInfoIffCanConnect ==
    \A i \in NamedContainers :
        SystemInfoProbe =>
            /\ (Returned /\ outcome.value = [result |-> [version |-> "unknown"]])
                    <=> before.containers[i].can_connect
            /\ ~before.containers[i].can_connect => RaisedUnwrapped("FileNotFoundError")

C3_Witness ==
    /\ SystemInfoProbe
    /\ \E i \in NamedContainers : ~before.containers[i].can_connect
    /\ Raised

-----------------------------------------------------------------------------
(* push and pull *)

\* the path of the last call, as the segments after the first "/"
PathTokens == Rest(Strs(Split(Args[1], "/")))

\* some intermediate segment of the path has no node in the tree
MissingIntermediate(fs, tokens) ==
    \E j \in 1..(Len(tokens) - 1) : SubSeq(tokens, 1, j) \notin DOMAIN fs

PushWithoutMakeDirs ==
    /\ Called("Client", "push")
    /\ "make_dirs" \in DOMAIN call.call_kwargs /\ ~call.call_kwargs["make_dirs"]

\* C4 as stated: a push with make_dirs false to a path having at least one
\* intermediate segment absent from the container's filesystem tree fails with
\* FileNotFoundError, not wrapped in a StateError, and the tree is the same
\* after the failed call as before it.
C4_MissingParentIsNotFound ==
    \A i \in NamedContainers :
        (PushWithoutMakeDirs
         /\ MissingIntermediate(before.containers[i].filesystem, PathTokens))
            => /\ RaisedUnwrapped("FileNotFoundError")
               /\ state = before

PushMakeDirs(c) ==
    /\ c.namespace = "Client" /\ c.tool_name = "push"
    /\ "make_dirs" \in DOMAIN c.call_kwargs /\ c.call_kwargs["make_dirs"]

\* every intermediate segment of the path is a directory node of the tree
IntermediatesAreDirs(fs, tokens) ==
    \A j \in 1..(Len(tokens) - 1) :
        SubSeq(tokens, 1, j) \in DOMAIN fs /\ fs[SubSeq(tokens, 1, j)].kind = "dir"

\* C5 as stated: a push of contents c to path p with make_dirs true that
\* returns has created every missing intermediate directory node of p, and a
\* pull of the same path p on the same container that follows it succeeds and
\* yields exactly c.
C5_PushPullRoundTrip ==
    [][(/\ ncalls' = ncalls + 1
        /\ PushMakeDirs(call) /\ outcome.kind = "return"
        /\ call'.namespace = "Client" /\ call'.tool_name = "pull"
        /\ call'.call_args[1] = call.call_args[1]
        /\ call'.call_args[2] = call.call_args[2])
       => (/\ \A i \in NamedContainers :
                 IntermediatesAreDirs(state.containers[i].filesystem, PathTokens)
           /\ outcome'.kind = "return"
           /\ outcome'.value.read = call.call_args[3].data)]_vars

-----------------------------------------------------------------------------
(* exec *)

\* C6 as stated: for a command of the container's exec_mock, the handle exec
\* returns raises ExecError from wait_output() and wait() if and only if the
\* canned return code is non-zero, and wait_output() otherwise returns exactly
\* the canned (stdout, stderr) pair.
C6_ExecErrorIffNonZero ==
    \A k \in 1..Len(waited) :
        LET out == process[1].out
            res == waited[k].res
        IN  /\ (res.kind = "raise" /\ res.type = "ExecError") <=> out.return_code # 0
            /\ (out.return_code = 0 /\ waited[k].method = "wait_output")
                    => (res.kind = "return" /\ res.value = <<out.stdout, out.stderr>>)

-----------------------------------------------------------------------------
(* config_get *)

Declared(key) == key \in DOMAIN CharmSpec.config
HasDefault(key) == Declared(key) /\ "default" \in DOMAIN CharmSpec.config[key]
HasValue(key) == key \in DOMAIN before.config

\* C7: when State.config is empty, config_get with no key returns exactly the
\* mapping from each declared option to its declared default (None for an
\* option declaring none), and config_get for a key the schema does not
\* declare fails with the not-found condition (KeyError, in a StateError).
C7_DefaultsWhenConfigEmpty ==
    (Called("_ModelBackend", "config_get") /\ before.config = EmptyDict)
        => /\ Args = << >> =>
                /\ Returned
                /\ DOMAIN outcome.value = DOMAIN CharmSpec.config
                /\ \A key \in DOMAIN CharmSpec.config :
                      outcome.value[key] = IF HasDefault(key)
                                           THEN CharmSpec.config[key].default
                                           ELSE None
           /\ (Args # << >> /\ ~Declared(Args[1])) => RaisedWrapped("KeyError")

C7_Witness ==
    /\ Called("_ModelBackend", "config_get") /\ before.config = EmptyDict
    /\ Args = << >> /\ Returned /\ outcome.value["opt_a"] = "a0"

\* C8 as stated: config_get for one key fails with the not-found condition
\* exactly when the key has neither a value in State.config nor a declared
\* default; in every other case it returns the State.config value, else the
\* declared default.
C8_NotFoundIffNoValueNoDefault ==
    (Called("_ModelBackend", "config_get") /\ Args # << >>)
        => LET key == Args[1]
           IN  /\ RaisedWrapped("KeyError") <=> (~HasValue(key) /\ ~HasDefault(key))
               /\ HasValue(key) => (Returned /\ outcome.value = before.config[key])
               /\ (~HasValue(key) /\ HasDefault(key))
                    => (Returned /\ outcome.value = CharmSpec.config[key].default)

-----------------------------------------------------------------------------
(* names no dispatch table holds *)

KnownNamespaces == {"_ModelBackend", "Client"}

\* C9 as stated: a tool name that appears in no dispatch table, or any tool
\* under an unknown namespace, always fails with QuestionNotImplementedError
\* carrying the namespace/tool pair.
C9_UnknownIsNotImplemented ==
    (\/ call.namespace \in KnownNamespaces /\ call.tool_name \in UnknownTools
                                     /\ (call.namespace = "Client" => NamedContainers # {})
     \/ call.namespace \notin KnownNamespaces \cup {None})
        => /\ RaisedUnwrapped("QuestionNotImplementedError")
           /\ outcome.exc.arg.namespace = call.namespace
           /\ outcome.exc.arg.tool_name = call.tool_name

-----------------------------------------------------------------------------
(* the container lookup *)

NoContainerNamed == call.namespace = "Client" /\ NamedContainers = {}

ClientOperations == {"_request", "exec", "pull", "push"}

-----------------------------------------------------------------------------
(* the wrap/no-wrap table *)

\* the operations marked to let their failures out unwrapped: pull, push and
\* the system-info probe on an unreachable container
MarkedUnwrapped ==
    \/ Called("Client", "pull") \/ Called("Client", "push")
    \/ SystemInfoProbe /\ \E i \in NamedContainers : ~before.containers[i].can_connect

\* the failure is a StateError recording namespace, operation and arguments
StateErrorOfCall ==
    /\ Raised /\ outcome.exc.type \in StateErrors
    /\ outcome.exc.arg.namespace = call.namespace
    /\ outcome.exc.arg.tool_name = call.tool_name
    /\ outcome.exc.arg.call_args = call.call_args
    /\ outcome.exc.arg.call_kwargs = call.call_kwargs

\* the failure is the condition the operation raised, with nothing around it
OriginalCondition ==
    Raised /\ outcome.exc.type \notin StateErrors /\ outcome.exc.cause = NoCause

-----------------------------------------------------------------------------
(* pull *)

\* some segment of the path has no node in the tree
SegmentAbsent(fs, tokens) ==
    \E j \in 1..Len(tokens) : SubSeq(tokens, 1, j) \notin DOMAIN fs

\* the path resolves to a leaf whose location on the local disk holds a file
ExistingFile(fs, tokens) ==
    tokens \in DOMAIN fs /\ fs[tokens].kind = "leaf" /\ fs[tokens].on_disk = "file"

\* C12 as stated: pull(path) fails with FileNotFoundError, not wrapped in a
\* StateError, whenever a segment of the path is absent from the container's
\* filesystem tree or the path does not resolve to an existing file (a
\* directory node included); in every other case it returns a read handle on
\* the file bound at that path.
C12_PullNotFoundOrHandle ==
    \A i \in NamedContainers :
        Called("Client", "pull") =>
            LET fs == before.containers[i].filesystem
            IN  IF SegmentAbsent(fs, PathTokens) \/ ~ExistingFile(fs, PathTokens)
                THEN RaisedUnwrapped("FileNotFoundError")
                ELSE Returned /\ outcome.value = [read |-> ReadText(fs[PathTokens].data)]

-----------------------------------------------------------------------------
(* the diagnostic log *)

\* C13 as stated: every intercepted call produces exactly one log line,
\* whether the simulator returns a result or raises a failure, so that the
\* log lines of a run are as many as its calls.
C13_OneLogLinePerCall ==
    call # NoCall => Len(logged) = 1

-----------------------------------------------------------------------------
(* the operations that are not simulated *)

\* C14: each of the fourteen explicitly unsupported operations fails, for all
\* arguments and all States, with a not-implemented condition naming the
\* operation (NotImplementedError(tool_name), in a StateError that records the
\* operation), and leaves the State unchanged.
C14_UnsupportedIsNotImplemented ==
    (call.namespace = "_ModelBackend" /\ call.tool_name \in UnsupportedOperations)
        => /\ RaisedWrapped("NotImplementedError")
           /\ outcome.exc.cause.arg = call.tool_name
           /\ outcome.exc.arg.tool_name = call.tool_name
           /\ state = before

\* secret_remove has been called with an argument, after a call that changed
\* the State
C14_Witness ==
    /\ Called("_ModelBackend", "secret_remove") /\ Args = <<"x">>
    /\ ncalls = 2 /\ before.juju_log # << >>
    /\ Raised

-----------------------------------------------------------------------------
(* the getters *)

BackendGetters ==
    {"relation_get", "is_leader", "status_get", "relation_ids", "relation_list",
     "config_get", "network_get"}

ServicesListing ==
    /\ Called("Client", "_request")
    /\ Len(Args) >= 2 /\ Args[1] = "GET" /\ Args[2] = "/v1/services"

GetterCall ==
    \/ call.namespace = "_ModelBackend" /\ call.tool_name \in BackendGetters
    \/ SystemInfoProbe \/ ServicesListing \/ Called("Client", "pull")

\* C15: every getter (relation_get, is_leader, status_get, relation_ids,
\* relation_list, config_get, network_get, the system-info and services
\* requests and pull) leaves the whole State as it was, whether it returns or
\* fails: config_get does not store the defaults it makes up for an empty
\* State.config, and the services listing does not alter the layers.
C15_GettersLeaveStateAlone ==
    GetterCall => state = before

\* the services listing has found two services on a container with layers
C15_Witness ==
    /\ ServicesListing /\ Returned /\ Len(outcome.value.result) = 2
    /\ \E i \in NamedContainers : Len(before.containers[i].layers) = 2

-----------------------------------------------------------------------------
(* the services listing *)

\* the names the call asks for
RequestedNames == Strs(Split(Args[3].names, ","))

DeclaredIn(layers, name) == {j \in 1..Len(layers) : name \in DOMAIN layers[j].services}

\* the definition of the name in the first layer that declares it
FirstDefinition(layers, name) ==
    LET j == CHOOSE h \in DeclaredIn(layers, name) :
                 \A g \in DeclaredIn(layers, name) : h <= g
    IN  layers[j].services[name]

\* C17 as stated: for a list of distinct requested names, the services
\* listing returns exactly one definition for every requested name that some
\* layer of the container declares, the one of the first layer declaring it;
\* a name no layer declares adds nothing and causes no failure.
C17_FirstLayerDefinitions ==
    \A i \in NamedContainers :
        ServicesListing =>
            LET layers == before.containers[i].layers
                found == {k \in 1..Len(RequestedNames) :
                            DeclaredIn(layers, RequestedNames[k]) # {}}
            IN  /\ Returned
                /\ Len(outcome.value.result) = Cardinality(found)
                /\ {outcome.value.result[k] : k \in 1..Len(outcome.value.result)}
                       = {FirstDefinition(layers, RequestedNames[k]) : k \in found}

-----------------------------------------------------------------------------
(* relation_get *)

\* the relation of that id in the State the call was made on
RelationOf(rel_id) ==
    before.relations[CHOOSE i \in 1..Len(before.relations) :
                        before.relations[i].meta.relation_id = rel_id]

\* the last segment of the object name, where a unit name has its number
Suffix(obj_name) ==
    LET segments == Strs(Split(obj_name, "/")) IN segments[Len(segments)]

\* the relation has data of the remote unit the object name ends in
RemoteUnitKnown(relation, obj_name) ==
    /\ IsNumeral(Suffix(obj_name))
    /\ DigitValue[Suffix(obj_name)] \in DOMAIN relation.remote_units_data

\* C18: relation_get on the id of a relation of the State returns the local
\* app data when the app flag is set and the object is the local application,
\* the remote app data when the flag is set and the object is anything else,
\* the local unit data when the flag is not set and the object is the local
\* unit, and otherwise the data of the remote unit whose id is the number the
\* object name ends in (failing when the relation has no such unit); on an id
\* of no relation it fails with the not-found condition (StopIteration, in a
\* StateError).
C18_RelationGetBranches ==
    Called("_ModelBackend", "relation_get") =>
        LET rel_id == Args[1]
            obj_name == Args[2]
            app == Args[3]
            relation == RelationOf(rel_id)
        IN  IF ~RelationPresent(rel_id) THEN RaisedWrapped("StopIteration")
            ELSE IF app /\ Str(obj_name) = this_app_name
                 THEN Returned /\ outcome.value = relation.local_app_data
            ELSE IF app
                 THEN Returned /\ outcome.value = relation.remote_app_data
            ELSE IF Str(obj_name) = this_unit_name
                 THEN Returned /\ outcome.value = relation.local_unit_data
            ELSE IF RemoteUnitKnown(relation, obj_name)
                 THEN /\ Returned
                      /\ outcome.value =
                            relation.remote_units_data[DigitValue[Suffix(obj_name)]]
            ELSE Raised

\* the data of remote unit 1 of relation 1 has been read
C18_Witness ==
    /\ Called("_ModelBackend", "relation_get")
    /\ Args[1] = 1 /\ Str(Args[2]) = "remote/1" /\ ~Args[3]
    /\ Returned /\ outcome.value = [k1 |-> "r1"]

-----------------------------------------------------------------------------
(* the waited flag of the exec handle *)

\* the waits made on the handle give, for each method, one and the same result
WaitsAgree ==
    \A j, k \in 1..Len(waited) :
        waited[j].method = waited[k].method => waited[j].res = waited[k].res

\* C19 as stated: the handle exec returns is marked waited once wait() or
\* wait_output() has been called on it, and not before; a later wait() or
\* wait_output() on the same handle is allowed and gives the outcome of the
\* first.
C19_WaitedAfterEitherCall ==
    process # << >> =>
        /\ process[1].waited <=> Len(waited) >= 1
        /\ WaitsAgree

-----------------------------------------------------------------------------
(* status *)

\* C20 as stated: for both scopes, a status_set with the app-level flag b,
\* status s and message m, followed by a status_get with the same app-level
\* flag b returns status s and message m, and the status_set leaves the
\* status tuple of the other scope as it was.
C20_StatusSetThenGet ==
    [][(/\ ncalls' = ncalls + 1
        /\ Called("_ModelBackend", "status_set")
        /\ call'.namespace = "_ModelBackend" /\ call'.tool_name = "status_get"
        /\ call'.call_kwargs = call.call_kwargs)
       => (/\ outcome'.kind = "return"
           /\ outcome'.value = [status |-> Args[1], message |-> Args[2]]
           /\ IF KwFlag(call.call_kwargs, "is_app")
              THEN state.status.unit = before.status.unit
              ELSE state.status.app = before.status.app)]_vars

-----------------------------------------------------------------------------
(* installing the wrappers *)

\* what the method of the call that is made is bound to, and the Scene its
\* outermost wrapper was made for
BoundNext == classes[call'.namespace][call'.tool_name]
LastInstalledFor == BoundNext[Len(BoundNext)].scene

\* C16: installing is idempotent per operation and independent of order: a
\* call of a patched operation does what one run of the simulator on the
\* State of the Scene the operation was last installed for does, however many
\* times and for whichever Scenes it was installed before, and whatever was
\* installed for the other operations; after installing for Scene A and then
\* for Scene B the call reads and changes B's State and leaves A's alone.
C16_LastInstallDecides ==
    [][ncalls' = ncalls + 1 =>
         LET r == wrap_tool(Scenes[LastInstalledFor], CharmSpec, call'.namespace,
                            call'.tool_name, call'.call_args, call'.call_kwargs,
                            NewChangeId)
         IN  /\ outcome' = r.outcome
             /\ Len(logged') = IF r.outcome.kind = "return" THEN 1 ELSE 0
             /\ IF LastInstalledFor = "A"
                THEN state' = r.st /\ scene_b' = scene_b
                ELSE scene_b' = r.st /\ state' = state]_vars

\* juju_log, installed for Scene A and then for Scene B, has been called: the
\* message is in B's log and A's log is empty
C16_Witness ==
    /\ Called("_ModelBackend", "juju_log") /\ Returned
    /\ Len(classes["_ModelBackend"]["juju_log"]) = 2
    /\ classes["_ModelBackend"]["juju_log"][1].scene = "A"
    /\ classes["_ModelBackend"]["juju_log"][2].scene = "B"
    /\ Len(scene_b.juju_log) = 1 /\ state.juju_log = << >>

-----------------------------------------------------------------------------
(* failure atomicity *)

\* the ids, or names, of the records of a collection, in order
RelationIdsOf(st) == [i \in 1..Len(st.relations) |-> st.relations[i].meta.relation_id]
ContainerNamesOf(st) == [i \in 1..Len(st.containers) |-> st.containers[i].name]
NetworkNamesOf(st) == [i \in 1..Len(st.networks) |-> st.networks[i].name]

\* the call left leadership, configuration and the collections' records alone
FrameKept ==
    /\ state.leader = before.leader
    /\ state.config = before.config
    /\ RelationIdsOf(state) = RelationIdsOf(before)
    /\ ContainerNamesOf(state) = ContainerNamesOf(before)
    /\ NetworkNamesOf(state) = NetworkNamesOf(before)

\* C21 as stated: whenever an operation of either namespace raises, wrapped
\* or not, the State after the call equals the State before it; and no
\* operation, succeeding or failing, changes State.leader, State.config, or
\* the membership and order of the relations, containers and networks.
C21_FailureLeavesStateAlone ==
    call # NoCall => /\ Raised => state = before
                     /\ FrameKept

-----------------------------------------------------------------------------
(* push into directories that exist *)

\* the two trees have the same nodes outside the path and what hangs below it
SameElsewhere(fs, gs, tokens) ==
    /\ {q \in DOMAIN fs : ~IsPrefix(tokens, q)} = {q \in DOMAIN gs : ~IsPrefix(tokens, q)}
    /\ \A q \in DOMAIN fs : ~IsPrefix(tokens, q) => gs[q] = fs[q]

\* C22 as stated: a push of text with make_dirs false succeeds whenever every
\* intermediate segment of the path is a directory node of the container's
\* filesystem tree, an empty directory included, and then binds the new file
\* at the final segment and changes no other node of the tree.
C22_PushIntoExistingDirs ==
    \A i \in NamedContainers :
        (/\ PushWithoutMakeDirs /\ Args[2].type = "str"
         /\ IntermediatesAreDirs(before.containers[i].filesystem, PathTokens))
            => /\ Returned
               /\ PathTokens \in DOMAIN state.containers[i].filesystem
               /\ state.containers[i].filesystem[PathTokens]
                      = Leaf("file", WriteText(Args[2].data))
               /\ SameElsewhere(before.containers[i].filesystem,
                                state.containers[i].filesystem, PathTokens)

====
